---- MODULE Spec2Model ----
(***************************************************************************)
(* South Park view counter: the counter store (getAndIncrementCounter,     *)
(* peekCounter over readStore / writeStore), the asset cache               *)
(* (imageToDataUri) and the request handler app.get('/@:name').            *)
(*                                                                         *)
(* The repository holds three variants of the server:                      *)
(*   "sqlite"  src/server.js 1-349     better-sqlite3 table, synchronous   *)
(*   "file"    src/unnamed/part_000    counters.json, synchronous          *)
(*   "server"  src/server.js 350-1718  Upstash Redis or file, async/await  *)
(* In the synchronous variants a request runs from its first line to       *)
(* res.send without yielding.  In the "server" variant every await is a     *)
(* point where another request may run.                                    *)
(***************************************************************************)
EXTENDS Naturals, Sequences, FiniteSets, TLC

VARIABLES
    variant,   \* which of the three variants is running
    doc,       \* the persisted store: counters.json / Redis key 'counters' / table counters
    cache,     \* imageDataUriCache: glyph path -> payload kind, or "none"
    req,       \* per request slot: the handler's position and locals
    nreq,      \* number of requests received so far (bounded by MaxRequests)
    last,      \* the request answered most recently: what it asked, what it got
    doc0,      \* history: the persisted store at start-up
    nofail,    \* history: no backend read or write has failed so far
    nolap,     \* history: no counter call has started while another was in progress
    incs,      \* history: per name, number of completed getAndIncrementCounter calls
    prev,      \* history: the request answered before last (its call, name, value)
    boot,      \* number of times the process has been restarted
    view       \* the rendering under study: its parameters and, once drawn, its output

vars == <<variant, doc, cache, req, nreq, last, doc0, nofail, nolap, incs, prev, boot,
          view>>

-----------------------------------------------------------------------------
(* Bounds *)

MaxRequests == 3      \* requests received in one run
MaxStored == 2        \* largest counter value in a start-up store

Reqs == {1, 2}        \* request slots: at most two requests in flight

Variants == {"sqlite", "file", "server"}

\* Request names.  "__proto__" is a legal route parameter (a string of at most 128
\* characters) that names an accessor of Object.prototype.
Names == {"a", "b", "__proto__"}
ProtoName == "__proto__"

\* A route parameter longer than the handler accepts.
LongName == "long"
RequestNames == Names \cup {LongName}
MaxNameLen == 128
NameLen(n) == IF n = LongName THEN MaxNameLen + 1 ELSE Len(n)

-----------------------------------------------------------------------------
(* Stored values.  A JSON document entry is a finite number, a number that   *)
(* parses to Infinity (1e999), something that is not a number (null, a       *)
(* string, an object), or absent.                                            *)

Num(v) == [t |-> "num", v |-> v]
Absent == [t |-> "absent", v |-> 0]
NonNum == [t |-> "nonnum", v |-> 0]
Inf == [t |-> "inf", v |-> 0]
ProtoObject == [t |-> "Object.prototype", v |-> 0]

EmptyMap == [n \in Names |-> Absent]

\* Persisted documents.  kind "missing": no file / no key; "malformed": not JSON;
\* "scalar": JSON that is not an object (number, string, true, null);
\* "array": a JSON array (typeof 'object'); "object": a JSON object;
\* "table": the sqlite table counters.
MkDoc(k, m) == [kind |-> k, map |-> m]

\* The in-memory store object a call works on.
MkStore(isArr, m) == [arr |-> isArr, own |-> m]
EmptyStore == MkStore(FALSE, EmptyMap)

\* readStore: a read failure, a missing or malformed document and a document that
\* is not an object all give {}.
\* A readStore that keeps reading the document when the backend call fails.
readStoreIgnoringFailure(d, rfail) ==
    IF d.kind \in {"missing", "malformed", "scalar"}
    THEN EmptyStore
    ELSE MkStore(d.kind = "array", d.map)

readStore(d, rfail) ==
    IF rfail \/ d.kind \in {"missing", "malformed", "scalar"}
    THEN EmptyStore
    ELSE MkStore(d.kind = "array", d.map)

\* store[name] as JavaScript evaluates it: an own property, else the inherited
\* accessor __proto__, else undefined.
Get(store, n) ==
    IF store.own[n] # Absent THEN store.own[n]
    ELSE IF n = ProtoName THEN ProtoObject
    ELSE Absent

\* A Current that starts a name without a numeric entry at 1.
CurrentOrOne(store, n) ==
    LET e == Get(store, n) IN IF e.t = "num" THEN e.v ELSE 1

\* typeof store[name] === 'number' && Number.isFinite(store[name]) ? store[name] : 0
Current(store, n) ==
    LET e == Get(store, n) IN IF e.t = "num" THEN e.v ELSE 0

\* store[name] = v.  Without an own property, assigning a number to __proto__
\* runs the inherited setter, which ignores a value that is not an object.
StoreSet(store, n, v) ==
    IF n = ProtoName /\ store.own[n] = Absent
    THEN store
    ELSE [store EXCEPT !.own[n] = Num(v)]

\* JSON.stringify(store): Infinity is written as null; named properties of an
\* array are not written.
StringifyEntry(e) == IF e = Inf THEN NonNum ELSE e

Stringify(store) ==
    IF store.arr
    THEN MkDoc("array", EmptyMap)
    ELSE MkDoc("object", [n \in Names |-> StringifyEntry(store.own[n])])

\* A writeStore that updates the entries of the snapshot one by one and keeps
\* what else the document holds.
writeStoreMerging(d, store, wfail) ==
    IF wfail THEN d
    ELSE IF d.kind = "object" /\ ~store.arr
    THEN MkDoc("object", [n \in Names |-> IF store.own[n] # Absent
                                          THEN StringifyEntry(store.own[n])
                                          ELSE d.map[n]])
    ELSE Stringify(store)

\* writeStore: the whole snapshot replaces the document; a failed write is
\* caught and changes nothing.
writeStore(d, store, wfail) ==
    IF wfail THEN d ELSE Stringify(store)

\* The result of one counter call: the value returned (or threw), and the
\* persisted store it leaves.
Result(v, d, t) == [value |-> v, doc |-> d, threw |-> t]

\* A getAndIncrementCounter that returns the old value when its write fails.
getAndIncrementCounterUnsaved(d, n, rfail, wfail) ==
    LET store == readStore(d, rfail)
        nextValue == Current(store, n) + 1
    IN  Result(IF wfail THEN nextValue - 1 ELSE nextValue,
               writeStore(d, StoreSet(store, n, nextValue), wfail), FALSE)

\* getAndIncrementCounter over readStore / writeStore (file and server variants).
getAndIncrementCounter(d, n, rfail, wfail) ==
    LET store == readStore(d, rfail)
        nextValue == Current(store, n) + 1
    IN  Result(nextValue, writeStore(d, StoreSet(store, n, nextValue), wfail), FALSE)

\* A peekCounter that saves the snapshot it read.
peekCounterSaving(d, n, rfail) ==
    LET store == readStore(d, rfail)
    IN  Result(Current(store, n), writeStore(d, store, FALSE), FALSE)

\* peekCounter over readStore (file and server variants).
peekCounter(d, n, rfail) ==
    Result(Current(readStore(d, rfail), n), d, FALSE)

\* The sqlite variant.  A prepared statement that fails throws, and nothing
\* here catches it.
sqlGetAndIncrementCounter(d, n, rfail, wfail) ==
    IF rfail THEN Result(0, d, TRUE)
    ELSE IF d.map[n] = Absent
    THEN IF wfail THEN Result(0, d, TRUE)
         ELSE Result(1, [d EXCEPT !.map[n] = Num(1)], FALSE)
    ELSE LET nextValue == d.map[n].v + 1
         IN  IF wfail THEN Result(0, d, TRUE)
             ELSE Result(nextValue, [d EXCEPT !.map[n] = Num(nextValue)], FALSE)

sqlPeekCounter(d, n, rfail) ==
    IF rfail THEN Result(0, d, TRUE)
    ELSE IF d.map[n] = Absent THEN Result(0, d, FALSE)
    ELSE Result(d.map[n].v, d, FALSE)

-----------------------------------------------------------------------------
(* Glyphs and the order query parameter *)

Stan == "/assets/stan.png"
Kyle == "/assets/kyle.png"
Mackey == "/assets/mr mackey.png"
Kenny == "/assets/kenny.png"
Cartman == "/assets/cartman.png"
Timmy == "/assets/timmy.png"
Wendy == "/assets/wendy.png"

defaultCharacterImages == <<Stan, Kyle, Mackey, Kenny, Cartman, Timmy, Wendy>>

GlyphPaths == {defaultCharacterImages[i] : i \in 1..Len(defaultCharacterImages)}


\* The order query parameter, already split at ','.  <<>> is the empty string.
OrderTokens == {"stan", " Kyle ", "mr mackey", "bogus", " ", "constructor"}

\* k.trim().toLowerCase()
TrimLower(tok) ==
    CASE tok = " Kyle " -> "kyle"
      [] tok = " " -> ""
      [] OTHER -> tok

\* rawKey.replace(/\s+/g, '-')
Dash(key) == IF key = "mr mackey" THEN "mr-mackey" ELSE key

\* characterKeyToPath[key]: an object literal, so a key such as "constructor"
\* finds a member inherited from Object.prototype; an unknown key is undefined.
Undefined == "undefined"
InheritedMember == "function Object() { [native code] }"

\* The values imageToDataUri can be called with.
LoadPaths == GlyphPaths \cup {InheritedMember}

characterKeyToPath(key) ==
    CASE key = "stan" -> Stan
      [] key = "kyle" -> Kyle
      [] key = "mr-mackey" -> Mackey
      [] key = "kenny" -> Kenny
      [] key = "cartman" -> Cartman
      [] key = "timmy" -> Timmy
      [] key = "wendy" -> Wendy
      [] key = "constructor" -> InheritedMember
      [] OTHER -> Undefined

RECURSIVE resolveKeys(_, _)
resolveKeys(keys, resolved) ==
    IF keys = <<>> THEN resolved
    ELSE LET path == characterKeyToPath(Dash(Head(keys)))
             seen == {resolved[i] : i \in 1..Len(resolved)}
         IN  resolveKeys(Tail(keys),
                         IF path # Undefined /\ path \notin seen
                         THEN Append(resolved, path) ELSE resolved)

NullOrder == [isNull |-> TRUE, list |-> <<>>]

parseOrder(orderStr) ==
    IF orderStr = <<>> THEN NullOrder
    ELSE LET lowered == [i \in 1..Len(orderStr) |-> TrimLower(orderStr[i])]
             keys == SelectSeq(lowered, LAMBDA k : k # "")
             resolved == resolveKeys(keys, <<>>)
         IN  IF Len(resolved) > 0
             THEN [isNull |-> FALSE, list |-> resolved]
             ELSE NullOrder

\* imagesToLoad in the handler
imagesToLoad(order) ==
    LET customOrder == parseOrder(order)
    IN  IF ~customOrder.isNull /\ Len(customOrder.list) > 0
        THEN customOrder.list
        ELSE defaultCharacterImages

-----------------------------------------------------------------------------
(* The renderer: renderSouthParkCounter *)

\* A string is the sequence of its characters.
DigitChars == <<"0", "1", "2", "3", "4", "5", "6", "7", "8", "9">>

Repeat(ch, k) == [i \in 1..k |-> ch]

RECURSIVE DecimalDigits(_)
DecimalDigits(n) ==
    IF n < 10 THEN <<DigitChars[n + 1]>>
    ELSE Append(DecimalDigits(n \div 10), DigitChars[(n % 10) + 1])

\* A JavaScript number that holds a non-negative integer, written m * 10^e with
\* m not a multiple of ten (m = 0 only for zero).
JsNumber(m, e) == [m |-> m, e |-> e]

RECURSIVE JsInt(_)
JsInt(n) ==
    IF n # 0 /\ n % 10 = 0
    THEN LET v == JsInt(n \div 10) IN JsNumber(v.m, v.e + 1)
    ELSE JsNumber(n, 0)

\* The number of digits of the value written in decimal.
DigitCount(v) == Len(DecimalDigits(v.m)) + v.e

\* Number::toString switches to exponent notation above this many digits.
MaxPlainDigits == 21

\* String(value): the decimal digits up to 21 of them, beyond that the
\* exponent form d[.ddd]e+N.
NumberToString(v) ==
    LET s == DecimalDigits(v.m)
        k == Len(s)
        n == k + v.e
    IN  IF n <= MaxPlainDigits
        THEN s \o Repeat("0", v.e)
        ELSE (IF k = 1 THEN s ELSE <<s[1], ".">> \o SubSeq(s, 2, k))
                 \o <<"e", "+">> \o DecimalDigits(n - 1)

\* A padStart that cuts the string down to the target length.
padStartExactly(str, targetLength, fill) ==
    IF Len(str) >= targetLength
    THEN SubSeq(str, Len(str) - targetLength + 1, Len(str))
    ELSE Repeat(fill, targetLength - Len(str)) \o str

\* str.padStart(targetLength, fill) with a one-character fill
padStart(str, targetLength, fill) ==
    IF Len(str) >= targetLength THEN str
    ELSE Repeat(fill, targetLength - Len(str)) \o str

\* const strValue = String(value).padStart(padding, '0');
strValue(value, padding) == padStart(NumberToString(value), padding, "0")

\* const displayStr = `${prefix || ''}${strValue}`;
displayStr(value, padding, prefix) == prefix \o strValue(value, padding)

digitWidth == 140
digitHeight == 112
digitGap == 0
paddingX == 0
filePaddingX == 8
filePaddingY == 16

\* Lengths are in hundredths of a user unit, so that a box of digitWidth *
\* charScale is a whole number.
Units(n) == n * 100

\* characterScales[imgHref] || 1.0, in hundredths
characterScales(img) ==
    CASE img = Cartman -> 60
      [] img = Mackey -> 70
      [] img = Stan -> 60
      [] img = Kenny -> 60
      [] img = Timmy -> 80
      [] img = Wendy -> 60
      [] img = Kyle -> 70
      [] OTHER -> 100

\* The list the handler passes as characterOrder is used unless it is empty.
characterImages(characterOrder) ==
    IF Len(characterOrder) > 0 THEN characterOrder ELSE defaultCharacterImages

\* The fixed list of the file variant.
fileCharacterImages == <<Cartman, Mackey, Stan, Kenny, Timmy, Wendy>>

\* characterImages[idx % characterImages.length], idx counted from 0: the same
\* expression occurs in the width loop, in the height loop and in the drawing
\* loop.
widthGlyph(images, idx) == images[(idx % Len(images)) + 1]

heightGlyph(images, idx) == images[(idx % Len(images)) + 1]

\* A drawing loop that starts one glyph later than the measuring loops.
drawGlyphShifted(images, idx) == images[((idx + 1) % Len(images)) + 1]

drawGlyph(images, idx) == images[(idx % Len(images)) + 1]

charWidth(img) == digitWidth * characterScales(img)
charHeight(img) == digitHeight * characterScales(img)

Max(a, b) == IF a >= b THEN a ELSE b

\* A width loop that assigns the width of each box instead of adding it.
totalWidthOfLastBox(len, images) ==
    Units(paddingX * 2) + charWidth(widthGlyph(images, len - 1))

\* let totalWidth = paddingX * 2; then per character += digitWidth * charScale
\* and, except after the last one, += digitGap
totalWidth(len, images) ==
    LET w[k \in 0..len] ==
            IF k = 0 THEN Units(paddingX * 2)
            ELSE w[k - 1] + charWidth(widthGlyph(images, k - 1))
                          + (IF k - 1 < len - 1 THEN Units(digitGap) ELSE 0)
    IN  w[len]

\* A height loop that starts from nothing instead of from digitHeight.
maxHeightOfBoxes(len, images) ==
    LET h[k \in 0..len] ==
            IF k = 0 THEN 0
            ELSE Max(h[k - 1], charHeight(heightGlyph(images, k - 1)))
    IN  h[len]

\* let maxHeight = digitHeight; then per character
\* maxHeight = Math.max(maxHeight, digitHeight * charScale)
maxHeight(len, images) ==
    LET h[k \in 0..len] ==
            IF k = 0 THEN Units(digitHeight)
            ELSE Max(h[k - 1], charHeight(heightGlyph(images, k - 1)))
    IN  h[len]

\* One <g> of the drawing loop: the glyph, the top of its box (charBaseY =
\* bottomAlignY - charHeight) and the size of the box.
drawBox(images, idx, bottomAlignY) ==
    LET imgPath == drawGlyph(images, idx)
    IN  [img |-> imgPath,
         y |-> bottomAlignY - charHeight(imgPath),
         width |-> charWidth(imgPath),
         height |-> charHeight(imgPath)]

\* renderSouthParkCounter of the server variant: the layout it computes.
\* measured, sized: the glyph the width loop and the height loop took per index.
renderSouthParkCounter(value, padding, prefix, characterOrder) ==
    LET str == displayStr(value, padding, prefix)
        len == Len(str)
        images == characterImages(characterOrder)
        height == maxHeight(len, images)
    IN  [displayStr |-> str,
         images |-> images,
         measured |-> [i \in 1..len |-> widthGlyph(images, i - 1)],
         sized |-> [i \in 1..len |-> heightGlyph(images, i - 1)],
         totalWidth |-> totalWidth(len, images),
         totalHeight |-> height,
         boxes |-> [i \in 1..len |-> drawBox(images, i - 1, height)]]

\* totalWidth of the file variant: every box is digitWidth wide
fileTotalWidth(len) ==
    Units(filePaddingX * 2 + len * digitWidth + (len - 1) * digitGap)

\* totalHeight of the file variant: paddingY * 2 + digitHeight * 2.2
fileTotalHeight == Units(filePaddingY * 2) + digitHeight * 220

\* One <g> of the drawing loop of the file variant.
fileDrawBox(idx) ==
    [img |-> fileCharacterImages[(idx % Len(fileCharacterImages)) + 1],
     y |-> Units(filePaddingY),
     width |-> Units(digitWidth),
     height |-> Units(digitHeight)]

\* renderSouthParkCounter of the file variant, which takes no characterOrder.
fileRenderSouthParkCounter(value, padding, prefix) ==
    LET str == displayStr(value, padding, prefix)
        len == Len(str)
    IN  [displayStr |-> str,
         images |-> fileCharacterImages,
         measured |-> <<>>,
         sized |-> <<>>,
         totalWidth |-> fileTotalWidth(len),
         totalHeight |-> fileTotalHeight,
         boxes |-> [i \in 1..len |-> fileDrawBox(i - 1)]]

\* No rendering under study.
NoView == [stage |-> "none"]

-----------------------------------------------------------------------------
(* Requests *)

\* A request slot holds the locals of a handler that is waiting at an await.
\* pc: "idle", "reading" (awaiting readStore), "writing" (awaiting writeStore),
\* "loading" (awaiting imageToDataUri(images[idx])).  num, inc: the query
\* parameters.  op: the counter call the request makes.  rfail and pre are history: whether the call's read failed,
\* and the persisted store its read saw.
IdleReq ==
    [pc |-> "idle", name |-> "a", op |-> "none", num |-> 0, inc |-> 1,
     store |-> EmptyStore,
     value |-> 0, rfail |-> FALSE, wfail |-> FALSE,
     pre |-> MkDoc("missing", EmptyMap), images |-> <<>>, idx |-> 0,
     valid |-> TRUE]

\* The locals of a request whose name or query is not valid.
Refused == [IdleReq EXCEPT !.valid = FALSE]

\* An answered request.  resp: "svg", "400", "500" ("none" before the first
\* answer).  accepted: the name and the query of the request were valid.  value: the
\* number shown.  op, rfail, wfail, pre, threw: the counter
\* call it made, whether its read / write failed, the persisted store its read
\* saw, and whether the call threw.  boot: the run of the process that answered.
Answer(rec, code, t) ==
    [name |-> rec.name, op |-> rec.op, num |-> rec.num, inc |-> rec.inc,
     accepted |-> rec.valid,
     value |-> rec.value, resp |-> code, threw |-> t,
     rfail |-> rec.rfail, wfail |-> rec.wfail, pre |-> rec.pre, boot |-> boot,
     images |-> rec.images, hrefs |-> <<>>]

NoAnswer == Answer(IdleReq, "none", FALSE)

\* What the history keeps of the answer before the latest one.
Brief(a) ==
    [op |-> a.op, name |-> a.name, value |-> a.value, resp |-> a.resp, boot |-> a.boot]

\* Start-up stores.  The file / Redis key may be absent, or hold what an earlier
\* run or an editor left there.
ObjectDocs ==
    { MkDoc("object", EmptyMap),
      MkDoc("object", [EmptyMap EXCEPT !["a"] = Num(0)]),
      MkDoc("object", [EmptyMap EXCEPT !["a"] = Num(MaxStored)]),
      MkDoc("object", [EmptyMap EXCEPT !["a"] = NonNum, !["b"] = Num(1)]),
      MkDoc("object", [EmptyMap EXCEPT !["a"] = Inf, !["b"] = NonNum]),
      MkDoc("object", [EmptyMap EXCEPT ![ProtoName] = Num(1)]) }

StartDocs ==
    { MkDoc(k, EmptyMap) : k \in {"missing", "malformed", "scalar", "array"} }
    \cup ObjectDocs

\* The table exists from start-up (CREATE TABLE IF NOT EXISTS); value INTEGER NOT NULL.
StartTables ==
    { MkDoc("table", EmptyMap),
      MkDoc("table", [EmptyMap EXCEPT !["a"] = Num(MaxStored)]) }

\* Caches preloadImages can leave behind: every glyph compressed, or some
\* glyphs missing because their load failed.
FullCache == [p \in LoadPaths |-> IF p \in GlyphPaths THEN "sharp" ELSE "none"]
PartCache == [FullCache EXCEPT ![Kyle] = "none"]

Init ==
    /\ boot = 0
    /\ view = NoView
    /\ variant \in Variants
    /\ doc \in (IF variant = "sqlite" THEN StartTables ELSE StartDocs)
    /\ doc0 = doc
    /\ cache = FullCache
    /\ req = [r \in Reqs |-> IdleReq]
    /\ nreq = 0
    /\ last = NoAnswer
    /\ nofail = TRUE
    /\ nolap = TRUE
    /\ incs = [n \in Names |-> 0]
    /\ prev = Brief(NoAnswer)

-----------------------------------------------------------------------------
(* Request inputs *)

OverrideNum == 5                      \* a num query parameter > 0
NumChoices == {0, OverrideNum}
IncChoices == {0, 1}
StoreOrders == {<<>>}
LiveOrders == {<<>>, <<" Kyle ", "bogus", "stan">>, <<"constructor">>}

\* A handler that never takes the override.
NoOverride(numv) == FALSE

\* if (num && num > 0): the request shows num and makes no counter call.
HasOverride(numv) == numv > 0

\* The name is a string of at most 128 characters and the query fits the schema.
Valid(n, queryOk) == NameLen(n) <= MaxNameLen /\ queryOk

\* A handler that checks the name only and reads the query as it comes.
RejectedForName(n, queryOk) == NameLen(n) > MaxNameLen

\* name.length > 128, or querySchema.parse throws
Rejected(n, queryOk) == NameLen(n) > MaxNameLen \/ ~queryOk

\* A request is answered: the answer becomes the latest one.
Reply(a) ==
    /\ last' = a
    /\ prev' = Brief(last)

\* History of a counter call that returned (ok: no backend failure in it).
Record(k, n, ok) ==
    /\ incs' = IF k = "inc" THEN [incs EXCEPT ![n] = @ + 1] ELSE incs
    /\ nofail' = (nofail /\ ok)

\* History of a step in which no counter call returns.
NoRecord(ok) ==
    /\ incs' = incs
    /\ nofail' = (nofail /\ ok)

-----------------------------------------------------------------------------
(* The synchronous variants: one request is one step *)

\* The two counter calls of the synchronous variant v.
incCall(v, d, n, rfail, wfail) ==
    IF v = "sqlite"
    THEN sqlGetAndIncrementCounter(d, n, rfail, wfail)
    ELSE getAndIncrementCounter(d, n, rfail, wfail)

peekCall(v, d, n, rfail) ==
    IF v = "sqlite" THEN sqlPeekCounter(d, n, rfail) ELSE peekCounter(d, n, rfail)

\* app.get('/@:name') of the synchronous variant v.  A counter call that throws
\* leaves the answer to Express: 500.
SyncHandler(v) ==
    /\ nreq < MaxRequests
    /\ nreq' = nreq + 1
    /\ \E n \in RequestNames, queryOk \in BOOLEAN :
          IF Rejected(n, queryOk)
          THEN /\ Reply(Answer(Refused, "400", FALSE))
               /\ doc' = doc
               /\ NoRecord(TRUE)
          ELSE \E numv \in NumChoices, inc \in IncChoices :
               LET rec == [IdleReq EXCEPT !.name = n, !.num = numv, !.inc = inc,
                                          !.valid = Valid(n, queryOk)] IN
               IF HasOverride(numv)
               THEN /\ Reply(Answer([rec EXCEPT !.value = numv], "svg", FALSE))
                    /\ doc' = doc
                    /\ NoRecord(TRUE)
               ELSE \E rfail \in BOOLEAN :
                    IF inc = 1
                    THEN \E wfail \in BOOLEAN :
                         LET res == incCall(v, doc, n, rfail, wfail)
                             done == [rec EXCEPT !.op = "inc", !.value = res.value,
                                                 !.rfail = rfail, !.wfail = wfail,
                                                 !.pre = doc]
                         IN  /\ Reply(Answer(done, IF res.threw THEN "500" ELSE "svg",
                                             res.threw))
                             /\ doc' = res.doc
                             /\ IF res.threw THEN NoRecord(FALSE)
                                ELSE Record("inc", n, ~rfail /\ ~wfail)
                    ELSE LET res == peekCall(v, doc, n, rfail)
                             done == [rec EXCEPT !.op = "peek", !.value = res.value,
                                                 !.rfail = rfail, !.pre = doc]
                         IN  /\ Reply(Answer(done, IF res.threw THEN "500" ELSE "svg",
                                             res.threw))
                             /\ doc' = res.doc
                             /\ IF res.threw THEN NoRecord(FALSE)
                                ELSE Record("peek", n, ~rfail)
    /\ UNCHANGED <<variant, boot, view, cache, req, doc0, nolap>>

SqliteRequest ==
    /\ variant = "sqlite"
    /\ SyncHandler("sqlite")

FileRequest ==
    /\ variant = "file"
    /\ SyncHandler("file")

-----------------------------------------------------------------------------
(* The asset cache *)

Cached(cch, p) == p \in GlyphPaths /\ cch[p] # "none"

\* A loader that takes whatever value it is given for a readable file.
LoadOutcomesOfAnything(p) == {"sharp", "raw", "fail"}

\* What one imageToDataUri(p) call can produce: the sharp-compressed payload,
\* the raw bytes (sharp missing or failing), or a failure to read the file.
\* A path that is not a string makes path.basename throw.
LoadOutcomes(p) == IF p \in GlyphPaths THEN {"sharp", "raw", "fail"} ELSE {"fail"}

\* The result of a call: the data URI built from the compressed or from the
\* raw bytes, or the path itself when the load failed.
Payload(p, outcome) == IF outcome = "fail" THEN p ELSE outcome

\* The history of the loads, where a specification keeps one: per path, how
\* many times the loader ran and which payloads the calls returned; and the
\* latest load with its outcome.
NoLoads ==
    [stage |-> "loads", loads |-> [p \in LoadPaths |-> 0],
     served |-> [p \in LoadPaths |-> {}],
     latest |-> [path |-> "", outcome |-> "none"]]

Loaded(v, p, outcome) ==
    IF v.stage = "loads"
    THEN [v EXCEPT !.loads[p] = @ + 1, !.served[p] = @ \cup {Payload(p, outcome)},
                   !.latest = [path |-> p, outcome |-> outcome]]
    ELSE v

\* The first index >= from of an image the cache does not hold; 0 when all are held.
NextUncached(imgs, from, cch) ==
    LET todo == {j \in from..Len(imgs) : ~Cached(cch, imgs[j])}
    IN  IF todo = {} THEN 0 ELSE CHOOSE j \in todo : \A k \in todo : j <= k

\* A renderer that leaves out the reference of a glyph the cache does not hold.
getImageHrefOrNothing(cch, relativePath) ==
    IF Cached(cch, relativePath) THEN cch[relativePath] ELSE ""

\* A renderer that refers to every glyph by its source path.
getImageHrefExternal(cch, relativePath) == relativePath

\* getImageHref in the renderer: the cached data URI, else the path itself.
getImageHref(cch, relativePath) ==
    IF Cached(cch, relativePath) THEN cch[relativePath] ELSE relativePath

\* The answer of a request that reached the renderer under cache cch.  hrefs:
\* the image reference the document gives to each glyph of the order.
Rendered(rec, cch) ==
    [Answer(rec, "svg", FALSE) EXCEPT
        !.hrefs = [i \in 1..Len(rec.images) |-> getImageHref(cch, rec.images[i])]]

-----------------------------------------------------------------------------
(* The server variant: a request runs from await to await *)

InCounterCall(r) == req[r].pc \in {"reading", "writing"}

\* The handler from the image loop on, entered at index from with the value to
\* show known: it awaits the next image the cache lacks, or renders the SVG and
\* sends it.
Continue(r, rec, from, cch) ==
    LET j == NextUncached(rec.images, from, cch)
    IN  IF j = 0
        THEN /\ req' = [req EXCEPT ![r] = IdleReq]
             /\ Reply(Rendered(rec, cch))
        ELSE /\ req' = [req EXCEPT ![r] = [rec EXCEPT !.pc = "loading", !.idx = j]]
             /\ UNCHANGED <<last, prev>>

\* The handler up to its first await.  A new request takes the lowest free slot
\* (slots are interchangeable).
Receive(r, names, orders) ==
    /\ variant = "server"
    /\ req[r].pc = "idle"
    /\ \A q \in Reqs : q < r => req[q].pc # "idle"
    /\ nreq < MaxRequests
    /\ nreq' = nreq + 1
    /\ \E n \in names, queryOk \in BOOLEAN :
          IF Rejected(n, queryOk)
          THEN /\ Reply(Answer(Refused, "400", FALSE))
               /\ UNCHANGED <<req, nolap>>
          ELSE \E numv \in NumChoices, inc \in IncChoices, order \in orders :
               LET rec == [IdleReq EXCEPT !.name = n, !.num = numv, !.inc = inc,
                                          !.images = imagesToLoad(order),
                                          !.valid = Valid(n, queryOk)]
               IN  IF HasOverride(numv)
                   THEN /\ Continue(r, [rec EXCEPT !.value = numv], 1, cache)
                        /\ nolap' = nolap
                   ELSE /\ req' = [req EXCEPT ![r] =
                                     [rec EXCEPT !.pc = "reading",
                                                 !.op = IF inc = 1 THEN "inc" ELSE "peek"]]
                        /\ UNCHANGED <<last, prev>>
                        /\ nolap' = (nolap /\ \A q \in Reqs \ {r} : ~InCounterCall(q))
    /\ UNCHANGED <<variant, boot, view, doc, cache, doc0, nofail, incs>>

\* What happens when await readStore() returns in request r.
ReadReturns(r) ==
    /\ \E rfail \in BOOLEAN :
          LET store == readStore(doc, rfail)
              current == Current(store, req[r].name)
              rec == [req[r] EXCEPT !.rfail = rfail, !.pre = doc]
          IN  IF req[r].op = "peek"
              THEN /\ Continue(r, [rec EXCEPT !.value = current], 1, cache)
                   /\ Record("peek", req[r].name, ~rfail)
              ELSE /\ req' = [req EXCEPT ![r] =
                                [rec EXCEPT !.pc = "writing",
                                            !.value = current + 1,
                                            !.store = StoreSet(store, req[r].name, current + 1)]]
                   /\ UNCHANGED <<last, prev>>
                   /\ NoRecord(~rfail)
    /\ UNCHANGED <<variant, boot, view, doc, cache, nreq, doc0, nolap>>

\* A read that waits while another request is between its read and its write.
ReadDoneLocked(r) ==
    /\ req[r].pc = "reading"
    /\ \A q \in Reqs \ {r} : req[q].pc # "writing"
    /\ ReadReturns(r)

\* await readStore() returns: peekCounter returns, getAndIncrementCounter goes
\* on to await writeStore(store).
ReadDone(r) ==
    /\ req[r].pc = "reading"
    /\ ReadReturns(r)

\* await writeStore(store) returns: getAndIncrementCounter returns nextValue.
WriteDone(r) ==
    /\ req[r].pc = "writing"
    /\ \E wfail \in BOOLEAN :
          /\ doc' = writeStore(doc, req[r].store, wfail)
          /\ Continue(r, [req[r] EXCEPT !.wfail = wfail, !.store = EmptyStore], 1, cache)
          /\ Record("inc", req[r].name, ~wfail)
    /\ UNCHANGED <<variant, boot, view, cache, nreq, doc0, nolap>>

\* An image load whose failure ends the request with an error response.
ImageDoneOrError(r) ==
    /\ req[r].pc = "loading"
    /\ \E outcome \in LoadOutcomes(req[r].images[req[r].idx]) :
          LET p == req[r].images[req[r].idx]
          IN  IF outcome = "fail"
              THEN /\ cache' = cache
                   /\ req' = [req EXCEPT ![r] = IdleReq]
                   /\ Reply(Answer(req[r], "500", TRUE))
              ELSE LET filled == [cache EXCEPT ![p] = outcome]
                   IN  /\ cache' = filled
                       /\ Continue(r, req[r], req[r].idx + 1, filled)
    /\ UNCHANGED <<variant, boot, view, doc, nreq, doc0, nofail, nolap, incs>>

\* An image load that, finding the entry already filled by another call, drops it.
ImageDoneEvicting(r) ==
    /\ req[r].pc = "loading"
    /\ \E outcome \in LoadOutcomes(req[r].images[req[r].idx]) :
          LET p == req[r].images[req[r].idx]
              filled == IF outcome = "fail" THEN cache
                        ELSE IF Cached(cache, p) THEN [cache EXCEPT ![p] = "none"]
                        ELSE [cache EXCEPT ![p] = outcome]
          IN  /\ cache' = filled
              /\ Continue(r, req[r], req[r].idx + 1, [cache EXCEPT ![p] = outcome])
              /\ view' = Loaded(view, p, outcome)
    /\ UNCHANGED <<variant, boot, doc, nreq, doc0, nofail, nolap, incs>>

\* await imageToDataUri(images[idx]) returns.
ImageDone(r) ==
    /\ req[r].pc = "loading"
    /\ \E outcome \in LoadOutcomes(req[r].images[req[r].idx]) :
          LET p == req[r].images[req[r].idx]
              filled == IF outcome = "fail" THEN cache ELSE [cache EXCEPT ![p] = outcome]
          IN  /\ cache' = filled
              /\ Continue(r, req[r], req[r].idx + 1, filled)
              /\ view' = Loaded(view, p, outcome)
    /\ UNCHANGED <<variant, boot, doc, nreq, doc0, nofail, nolap, incs>>

-----------------------------------------------------------------------------
(* Specifications *)

MaxLiveRequests == 2
LiveNames == {"a", LongName}

InitLive ==
    /\ boot = 0
    /\ view = NoView
    /\ variant = "server"
    /\ doc = MkDoc("object", [EmptyMap EXCEPT !["a"] = Num(MaxStored)])
    /\ doc0 = doc
    /\ cache = PartCache
    /\ req = [r \in Reqs |-> IdleReq]
    /\ nreq = 0
    /\ last = NoAnswer
    /\ nofail = TRUE
    /\ nolap = TRUE
    /\ incs = [n \in Names |-> 0]
    /\ prev = Brief(NoAnswer)

LiveReceive(r) ==
    /\ nreq < MaxLiveRequests
    /\ Receive(r, LiveNames, LiveOrders)

\* The server variant with glyphs still to load.
NextLive ==
    \/ \E r \in Reqs : LiveReceive(r)
    \/ \E r \in Reqs : ReadDone(r)
    \/ \E r \in Reqs : WriteDone(r)
    \/ \E r \in Reqs : ImageDone(r)

\* Every backend call (Redis get / set, file read, sharp) eventually returns or
\* fails, so every await eventually resumes.
LiveSpec ==
    /\ InitLive /\ [][NextLive]_vars
    /\ \A r \in Reqs : /\ WF_vars(ReadDone(r))
                       /\ WF_vars(WriteDone(r))
                       /\ WF_vars(ImageDone(r))

\* The same server with the history of its image loads kept.
InitCache ==
    /\ boot = 0
    /\ view = NoLoads
    /\ variant = "server"
    /\ doc = MkDoc("object", [EmptyMap EXCEPT !["a"] = Num(MaxStored)])
    /\ doc0 = doc
    /\ cache = PartCache
    /\ req = [r \in Reqs |-> IdleReq]
    /\ nreq = 0
    /\ last = NoAnswer
    /\ nofail = TRUE
    /\ nolap = TRUE
    /\ incs = [n \in Names |-> 0]
    /\ prev = Brief(NoAnswer)

CacheSpec == InitCache /\ [][NextLive]_vars

MaxRestarts == 1

\* The process is stopped and started again: requests in progress are lost with
\* the process, the cache is filled again by preloadImages, and the persisted
\* store is what it was.
Restart ==
    /\ boot < MaxRestarts
    /\ boot' = boot + 1
    /\ req' = [r \in Reqs |-> IdleReq]
    /\ cache' = FullCache
    /\ UNCHANGED <<variant, view, doc, nreq, last, doc0, nofail, nolap, incs, prev>>

\* The counter store: all three variants, the cache pre-warmed by preloadImages.
Next ==
    \/ SqliteRequest
    \/ FileRequest
    \/ \E r \in Reqs : Receive(r, RequestNames, StoreOrders)
    \/ \E r \in Reqs : ReadDone(r)
    \/ \E r \in Reqs : WriteDone(r)

Spec == Init /\ [][Next]_vars

InitRestart ==
    /\ boot = 0
    /\ view = NoView
    /\ variant \in Variants
    /\ doc \in (IF variant = "sqlite"
                THEN StartTables
                ELSE {MkDoc("missing", EmptyMap),
                      MkDoc("object", [EmptyMap EXCEPT !["a"] = Num(MaxStored)])})
    /\ doc0 = doc
    /\ cache = FullCache
    /\ req = [r \in Reqs |-> IdleReq]
    /\ nreq = 0
    /\ last = NoAnswer
    /\ nofail = TRUE
    /\ nolap = TRUE
    /\ incs = [n \in Names |-> 0]
    /\ prev = Brief(NoAnswer)

\* The counter store across restarts of the process.
NextRestart ==
    \/ Next
    \/ Restart

RestartSpec == InitRestart /\ [][NextRestart]_vars

\* The renderer as a function of its parameters.  value is what the handler
\* passes on: the override num or the counter value, a non-negative integer
\* held in a JavaScript number.
RenderValues ==
    {JsInt(0), JsInt(5), JsInt(42), JsInt(12345678), JsNumber(1, 21), JsNumber(12, 20)}
RenderPaddings == {1, 4, 5, 7, 16}
RenderPrefixes == {<<>>, <<"S", "P", "-">>}
RenderOrders ==
    {<<>>, <<"bogus">>, <<"", " ">>, <<"stan", " Kyle ">>, <<"timmy", "wendy">>,
     <<"stan", "stan">>, <<"wendy", "stan", "wendy", "bogus">>, <<"constructor">>}
RenderVariants == {"server", "file"}

InitRender ==
    /\ boot = 0
    /\ variant \in RenderVariants
    /\ \E value \in RenderValues, padding \in RenderPaddings,
          prefix \in RenderPrefixes, order \in RenderOrders :
           view = [stage |-> "asked", value |-> value, padding |-> padding,
                   prefix |-> prefix, order |-> order]
    /\ doc = MkDoc("object", EmptyMap)
    /\ doc0 = doc
    /\ cache = FullCache
    /\ req = [r \in Reqs |-> IdleReq]
    /\ nreq = 0
    /\ last = NoAnswer
    /\ nofail = TRUE
    /\ nolap = TRUE
    /\ incs = [n \in Names |-> 0]
    /\ prev = Brief(NoAnswer)

\* The handler resolves the order parameter and calls the renderer.
Render ==
    /\ view.stage = "asked"
    /\ LET characterOrder == imagesToLoad(view.order)
       IN  view' = [stage |-> "drawn", value |-> view.value, padding |-> view.padding,
                    prefix |-> view.prefix, order |-> view.order,
                    customOrder |-> parseOrder(view.order),
                    characterOrder |-> characterOrder,
                    out |-> IF variant = "file"
                            THEN fileRenderSouthParkCounter(view.value, view.padding,
                                                            view.prefix)
                            ELSE renderSouthParkCounter(view.value, view.padding,
                                                        view.prefix, characterOrder)]
    /\ UNCHANGED <<variant, boot, doc, cache, req, nreq, last, doc0, nofail, nolap,
                   incs, prev>>

NextRender == Render

RenderSpec == InitRender /\ [][NextRender]_vars

-----------------------------------------------------------------------------
(* Properties of the counter store *)

\* The name n was never seen by the store the program started with.
Fresh(n) ==
    \/ doc0.kind = "missing"
    \/ doc0.kind \in {"object", "table"} /\ doc0.map[n] = Absent

\* The entry the persisted document d holds for n.
Stored(d, n) == IF d.kind \in {"object", "table"} THEN d.map[n] ELSE Absent

\* The latest answer is that of a counter call of kind k that returned.
Returned(k) == last.op = k /\ last.resp = "svg"

\* This step answers a request.
Answered ==
    \/ nreq' = nreq + 1 /\ req' = req
    \/ \E r \in Reqs : req[r].pc # "idle" /\ req'[r].pc = "idle"

\* C1: starting from a store that has never seen name n, when every request so
\* far was a getAndIncrementCounter(n) that ran alone and without a backend
\* failure, the latest one returned the number of calls made: 1, 2, ..., N.
C1_SequentialIncrements ==
    \A n \in Names :
        (nofail /\ nolap /\ Fresh(n) /\ incs[n] >= 1 /\ nreq = incs[n])
            => (Returned("inc") /\ last.name = n /\ last.value = incs[n])

\* C2: getAndIncrementCounter holds no lock between its read and its write: a
\* request waiting for its read can always be served while another one is
\* between its read and its write.  When, without any backend failure and on a
\* store that is an object, two consecutive answers are increments of "a" that
\* returned the same value, the two calls overlapped and the store holds that
\* value: one update is lost.
C2_LostUpdate ==
    /\ \A r \in Reqs : \A q \in Reqs \ {r} :
           (req[r].pc = "writing" /\ req[q].pc = "reading") => ENABLED ReadDone(q)
    /\ (/\ variant = "server" /\ nofail
        /\ Returned("inc") /\ last.name = "a" /\ last.pre.kind = "object"
        /\ prev.op = "inc" /\ prev.resp = "svg" /\ prev.name = "a"
        /\ prev.value = last.value)
           => (~nolap /\ Stored(doc, "a") = Num(last.value))

\* Two overlapping getAndIncrementCounter("a") calls, started on a store
\* holding 0 for "a", have both returned 1 and the store holds 1.
C2_Witness ==
    /\ variant = "server" /\ nofail /\ nreq = 2
    /\ doc0.kind = "object" /\ doc0.map["a"] = Num(0)
    /\ Returned("inc") /\ last.name = "a" /\ last.value = 1
    /\ prev.op = "inc" /\ prev.name = "a" /\ prev.value = 1
    /\ Stored(doc, "a") = Num(1)
    /\ \A r \in Reqs : req[r].pc = "idle"

\* C3: peekCounter(n) returns 0 when the store it read holds no entry for n.
C3_PeekUnseen ==
    (Returned("peek") /\ Stored(last.pre, last.name) = Absent) => last.value = 0

\* A peekCounter of a name absent from a store that holds other names, read
\* without failure, has returned.
C3_Witness ==
    /\ Returned("peek") /\ ~last.rfail
    /\ last.pre.kind \in {"object", "table"}
    /\ last.pre.map[last.name] = Absent
    /\ \E m \in Names : last.pre.map[m] # Absent
    /\ last.value = 0

\* C4: after one getAndIncrementCounter(n) on a never-seen name has returned,
\* with no failure and no overlapping call, the peekCounter(n) that follows
\* returns 1, the value the increment returned.
C4_IncrementThenPeek ==
    (/\ nofail /\ nolap
     /\ Returned("peek") /\ Fresh(last.name) /\ incs[last.name] = 1
     /\ prev.op = "inc" /\ prev.resp = "svg" /\ prev.name = last.name)
        => (prev.value = 1 /\ last.value = 1)

\* This step is taken by a request that calls peekCounter.
PeekStep ==
    \/ variant # "server" /\ nreq' = nreq + 1 /\ last'.op = "peek"
    \/ \E r \in Reqs : req'[r] # req[r] /\ "peek" \in {req[r].op, req'[r].op}

\* C5: no step of a request that calls peekCounter changes the persisted
\* store, whether the name is present or absent and whether the read fails.
C5_PeekNoSideEffect == [][PeekStep => doc' = doc]_vars

\* A peekCounter whose read failed has returned 0 for a name the store holds,
\* and the store still holds what it held.
C5_Witness ==
    /\ Returned("peek") /\ last.rfail /\ last.value = 0
    /\ Stored(last.pre, last.name) = Num(MaxStored)
    /\ doc = last.pre

\* C6: a counter call of the file or server variant whose read and write did not
\* fail and that ran alone takes the entry e it read for the name as e when e
\* is a finite number and as 0 when e is missing, not a number or infinite:
\* peekCounter returns that, getAndIncrementCounter returns that plus one and
\* leaves it written for the name.
C6_EntryAsNumber ==
    (/\ variant \in {"file", "server"} /\ nolap
     /\ last.resp = "svg" /\ last.op \in {"inc", "peek"}
     /\ ~last.rfail /\ ~last.wfail)
        => LET e == Stored(last.pre, last.name)
               current == IF e.t = "num" THEN e.v ELSE 0
           IN  IF last.op = "peek"
               THEN last.value = current
               ELSE /\ last.value = current + 1
                    /\ Stored(doc, last.name) = Num(current + 1)

\* C7: in the file and server variants, a counter call whose read fails, or
\* finds no document, a malformed document or a document that is not an
\* object, returns as on an empty store: peekCounter 0, getAndIncrementCounter
\* 1, and the request is answered with the image.
C7_ReadFailureIsEmptyStore ==
    (/\ variant \in {"file", "server"} /\ last.op \in {"inc", "peek"}
     /\ (last.rfail \/ last.pre.kind \in {"missing", "malformed", "scalar"}))
        => (/\ last.resp = "svg" /\ ~last.threw
            /\ last.value = IF last.op = "inc" THEN 1 ELSE 0)

\* A getAndIncrementCounter whose read failed has returned 1 although the
\* store holds a larger value for the name.
C7_Witness ==
    /\ variant \in {"file", "server"}
    /\ Returned("inc") /\ last.rfail /\ last.value = 1
    /\ Stored(last.pre, last.name) = Num(MaxStored)

\* This step answers a getAndIncrementCounter whose write failed.
WriteFailed ==
    /\ Answered /\ variant \in {"file", "server"}
    /\ last'.op = "inc" /\ last'.wfail

\* C8: in the file and server variants, a getAndIncrementCounter whose write
\* fails still returns the value it read plus one, the request is answered with
\* the image, and the persisted store is left as it was.
C8_WriteFailureSwallowed ==
    [][WriteFailed =>
          /\ last'.resp = "svg" /\ ~last'.threw
          /\ last'.value = Current(readStore(last'.pre, last'.rfail), last'.name) + 1
          /\ doc' = doc]_vars

\* A getAndIncrementCounter on a stored value has returned that value plus one
\* after its write failed, and the store still holds the old value.
C8_Witness ==
    /\ variant \in {"file", "server"}
    /\ Returned("inc") /\ last.wfail /\ ~last.rfail /\ last.name = "a"
    /\ last.value = MaxStored + 1
    /\ Stored(doc, "a") = Num(MaxStored)

\* C9: no counter call throws: whatever the name, the store and the backend
\* failures, a request that made one is answered with the image for an integer.
C9_NeverThrows ==
    last.op \in {"inc", "peek"} => (~last.threw /\ last.resp = "svg" /\ last.value \in Nat)

\* The number the persisted document d holds for n, as a counter call reads it.
Value(d, n) == LET e == Stored(d, n) IN IF e.t = "num" THEN e.v ELSE 0

\* C11: as long as no counter call has overlapped another, no step lowers the
\* persisted value of any name.
C11_StoredNeverDecreases ==
    [][nolap' => \A n \in Names : Value(doc', n) >= Value(doc, n)]_vars

\* Request r's await of writeStore returns in this step.
WriteReturns(r) == req[r].pc = "writing" /\ req'[r].pc # "writing"

\* The request whose write returned, as it stands after the step.
AfterWrite(r) == IF req'[r].pc = "idle" THEN last' ELSE req'[r]

\* The snapshot a call read: what readStore made of the document it saw.
SnapshotRead(a) == readStore(a.pre, a.rfail)

\* C24: what a call of getAndIncrementCounter writes is the snapshot it read
\* with the entry of its name set to current + 1, whatever other callers wrote
\* between its read and its write: the document after the write holds nothing
\* of theirs.
C24_WritesOwnSnapshot ==
    [][\A r \in Reqs : (WriteReturns(r) /\ ~AfterWrite(r).wfail) =>
          LET a == AfterWrite(r)
              snapshot == SnapshotRead(a)
          IN  \A m \in Names :
                 Stored(doc', m) =
                     IF m = a.name THEN Num(Current(snapshot, m) + 1)
                     ELSE StringifyEntry(snapshot.own[m])]_vars

\* This step completes a call of getAndIncrementCounter for name n: the whole
\* request in the synchronous variants, the return of writeStore in the server.
IncrementCompletes(n) ==
    \/ variant # "server" /\ Answered /\ last'.op = "inc" /\ last'.name = n
    \/ \E r \in Reqs : WriteReturns(r) /\ req[r].name = n

\* C25: with no two counter calls overlapping, a call of
\* getAndIncrementCounter for a name leaves the persisted value of every other
\* name as it was, whatever the store holds and whether or not the backend
\* read or write of the call fails.
C25_OtherNamesUntouched ==
    [][\A n \in Names : (nolap' /\ IncrementCompletes(n)) =>
          \A m \in Names \ {n} : Value(doc', m) = Value(doc, m)]_vars

OrdinaryNames == Names \ {ProtoName}

\* C26 as stated: after one call of getAndIncrementCounter for each of two
\* names, overlapping or not, and no backend failure, the persisted value of
\* each name includes its increment.
C26_DistinctNamesIndependent ==
    (/\ variant = "server" /\ nofail
     /\ \A r \in Reqs : req[r].pc = "idle"
     /\ doc0.kind \in {"object", "missing"}
     /\ incs[ProtoName] = 0
     /\ \A n \in OrdinaryNames : incs[n] <= 1)
        => \A n \in OrdinaryNames : Value(doc, n) = Value(doc0, n) + incs[n]

\* C26: a call of getAndIncrementCounter for one name writes back, for every
\* other name, the value it read: an increment of another name that was
\* written between its read and its write is lost with that write.
C26_LaterWriteDropsOther ==
    [][\A r \in Reqs :
          (/\ WriteReturns(r) /\ ~AfterWrite(r).wfail /\ ~AfterWrite(r).rfail
           /\ AfterWrite(r).name \in OrdinaryNames
           /\ AfterWrite(r).pre.kind = "object")
             => \A m \in OrdinaryNames \ {AfterWrite(r).name} :
                    Value(doc', m) = Value(AfterWrite(r).pre, m)]_vars

C26_Witness ==
    /\ variant = "server" /\ nofail /\ ~nolap
    /\ \A r \in Reqs : req[r].pc = "idle"
    /\ doc0 = MkDoc("object", EmptyMap)
    /\ incs["a"] = 1 /\ incs["b"] = 1 /\ incs[ProtoName] = 0
    /\ last.name = "b" /\ last.op = "inc" /\ last.value = 1
    /\ prev.name = "a" /\ prev.op = "inc" /\ prev.value = 1
    /\ Value(doc, "b") = 1 /\ Value(doc, "a") = 0

\* C27: in the synchronous variants a request's increment is one step, so the
\* requests for a name get pairwise distinct values and none of their updates
\* is lost: without backend failure every increment returns a value above the
\* persisted one, persists exactly that value, and no step lowers a persisted
\* value.
C27_SynchronousDistinct ==
    [][(variant \in {"file", "sqlite"} /\ nofail') =>
          /\ \A n \in Names : Value(doc', n) >= Value(doc, n)
          /\ (Answered /\ last'.op = "inc" /\ last'.resp = "svg") =>
                 /\ last'.value > Value(doc, last'.name)
                 /\ last'.value = Value(doc', last'.name)
                 /\ Value(doc', last'.name) = Value(doc, last'.name) + 1]_vars

-----------------------------------------------------------------------------
(* Properties of the request handler *)

\* C10: in the server variant every request in progress is eventually answered,
\* and every request with a valid name and a valid query is answered with the
\* SVG image, whatever fails among the store read, the store write, the image
\* loads and the image compression.
C10_AlwaysSvg ==
    /\ \A r \in Reqs : (req[r].pc # "idle") ~> (req[r].pc = "idle")
    /\ [](last.accepted => last.resp \in {"svg", "none"})

\* A request whose store read, store write and image load all failed has been
\* answered with the image.
C10_Witness ==
    /\ last.resp = "svg" /\ last.op = "inc" /\ last.rfail /\ last.wfail
    /\ \E p \in GlyphPaths : ~Cached(cache, p)
    /\ \A r \in Reqs : req[r].pc = "idle"

\* This step answers a request whose query carries num > 0.
OverrideAnswered == Answered /\ last'.accepted /\ last'.num > 0

\* This step is taken by a request whose query carries num > 0.
OverrideStep ==
    \/ OverrideAnswered
    \/ \E r \in Reqs : req'[r] # req[r] /\ (req[r].num > 0 \/ req'[r].num > 0)

C13_CountsAndShows ==
    (/\ variant \in {"server", "sqlite"} /\ nofail /\ nolap
     /\ last.resp = "svg" /\ last.accepted /\ last.num = 0)
        => IF last.inc = 1
           THEN /\ Value(doc, last.name) = Value(last.pre, last.name) + 1
                /\ last.value = Value(doc, last.name)
           ELSE /\ doc = last.pre
                /\ last.value = Value(doc, last.name)

\* C14: a getAndIncrementCounter returned after writing its value, the process
\* was restarted, and the next request, a peekCounter of the same name, was
\* answered; no backend call failed and no two calls overlapped.  The peek
\* returns the value the increment wrote.
C14_SurvivesRestart ==
    (/\ nofail /\ nolap /\ Returned("peek")
     /\ prev.op = "inc" /\ prev.resp = "svg" /\ prev.name = last.name
     /\ last.boot > prev.boot)
        => last.value = prev.value

\* C28: a request whose name is too long or whose query fails validation is
\* answered 400 in the step that receives it: it makes no counter call, the
\* persisted store and the asset cache stay as they are, and no invalid
\* request is ever waiting at an await.
C28_RejectedTouchesNothing ==
    [][/\ \A r \in Reqs : req'[r].valid
       /\ (Answered /\ ~last'.accepted) =>
             /\ last'.resp = "400" /\ last'.op = "none"
             /\ doc' = doc /\ cache' = cache /\ incs' = incs
             /\ req' = req /\ view' = view]_vars

C28_Witness ==
    /\ last.resp = "400" /\ ~last.accepted /\ last.op = "none"
    /\ prev.resp = "svg" /\ prev.op = "inc" /\ prev.value = MaxStored + 1
    /\ nreq = 2 /\ incs["a"] = 1
    /\ Value(doc, "a") = MaxStored + 1

-----------------------------------------------------------------------------
(* Properties of the renderer *)

Drawn == view.stage = "drawn"

\* The value written out in decimal, every digit of it.
PlainDecimal(v) == DecimalDigits(v.m) \o Repeat("0", v.e)

\* C15: the display string is the prefix followed by the decimal value padded
\* on the left with '0' to at least padding digits: its length is
\* len(prefix) + max(padding, digits(value)), a value with more digits than
\* padding keeps all its digits, and ("SP-", 42, 4) gives "SP-0042".
C15_DisplayString ==
    Drawn =>
        LET str == view.out.displayStr
            pre == Len(view.prefix)
            digits == DigitCount(view.value)
        IN  /\ Len(str) = pre + Max(view.padding, digits)
            /\ SubSeq(str, 1, pre) = view.prefix
            /\ SubSeq(str, Len(str) - digits + 1, Len(str)) = PlainDecimal(view.value)
            /\ \A i \in (pre + 1)..(Len(str) - digits) : str[i] = "0"
            /\ (/\ view.prefix = <<"S", "P", "-">>
                /\ view.value = JsInt(42)
                /\ view.padding = 4)
                   => str = <<"S", "P", "-", "0", "0", "4", "2">>

\* The glyph sequence of a rendering: the list handed to the renderer, or the
\* fixed list of the file variant.
GlyphOrder == IF variant = "file" THEN fileCharacterImages ELSE view.characterOrder

Cyclic(order, i) == order[((i - 1) % Len(order)) + 1]

DrawnGlyphs == [i \in 1..Len(view.out.boxes) |-> view.out.boxes[i].img]

\* C16: the glyph at character index i is characterOrder[i mod length], in the
\* drawing loop and, where the variant measures glyphs, in the width loop and
\* in the height loop alike; the order [A, B] under five characters gives
\* A, B, A, B, A.
C16_CyclicGlyphs ==
    Drawn =>
        /\ Len(view.out.boxes) = Len(view.out.displayStr)
        /\ \A i \in 1..Len(view.out.displayStr) :
               /\ DrawnGlyphs[i] = Cyclic(GlyphOrder, i)
               /\ variant = "server" =>
                      /\ view.out.measured[i] = Cyclic(GlyphOrder, i)
                      /\ view.out.sized[i] = Cyclic(GlyphOrder, i)
        /\ (GlyphOrder = <<Stan, Kyle>> /\ Len(view.out.displayStr) = 5)
               => DrawnGlyphs = <<Stan, Kyle, Stan, Kyle, Stan>>

C16_Witness ==
    /\ Drawn /\ variant = "server"
    /\ view.order = <<"stan", " Kyle ">>
    /\ view.out.displayStr = <<"0", "0", "0", "4", "2">>
    /\ DrawnGlyphs = <<Stan, Kyle, Stan, Kyle, Stan>>
    /\ view.out.measured = DrawnGlyphs /\ view.out.sized = DrawnGlyphs

\* The keys the table characterKeyToPath lists.
GlyphKeys == {"stan", "kyle", "mr-mackey", "kenny", "cartman", "timmy", "wendy"}

NamesGlyph(tok) == Dash(TrimLower(tok)) \in GlyphKeys

\* C17: whatever the order string, the sequence the renderer indexes is not
\* empty, and when no key of the string names a known glyph that sequence is
\* the built-in default one.
C17_NonEmptyGlyphs ==
    (Drawn /\ variant = "server") =>
        /\ Len(view.out.images) > 0
        /\ (\A i \in 1..Len(view.order) : ~NamesGlyph(view.order[i]))
               => view.out.images = defaultCharacterImages

\* The tallest box the drawing loop placed.
TallestBox ==
    LET hs == {view.out.boxes[i].height : i \in 1..Len(view.out.boxes)}
    IN  CHOOSE h \in hs : \A g \in hs : g <= h

BottomAligned ==
    \A i \in 1..Len(view.out.boxes) :
        view.out.boxes[i].y + view.out.boxes[i].height = view.out.totalHeight

\* C18 as stated: the canvas is as high as the tallest glyph box, and every box
\* stands on the bottom edge of the canvas.
C18_HeightIsTallestBox ==
    (Drawn /\ variant = "server") =>
        /\ view.out.totalHeight = TallestBox
        /\ BottomAligned

\* C18: the canvas is as high as the unscaled glyph height digitHeight or, if
\* that is more, the tallest glyph box; every box stands on the bottom edge of
\* the canvas (top y + box height = canvas height) and none starts above it.
C18_HeightAndBottomAlign ==
    (Drawn /\ variant = "server") =>
        /\ view.out.totalHeight = Max(Units(digitHeight), TallestBox)
        /\ BottomAligned
        /\ \A i \in 1..Len(view.out.boxes) : view.out.boxes[i].y >= 0

C18_Witness ==
    /\ Drawn /\ variant = "server"
    /\ view.order = <<"timmy", "wendy">>
    /\ Len(view.out.boxes) >= 2
    /\ view.out.boxes[1].height = digitHeight * 80
    /\ view.out.boxes[2].height = digitHeight * 60
    /\ view.out.totalHeight = Units(digitHeight)
    /\ TallestBox < view.out.totalHeight
    /\ view.out.boxes[2].y = Units(digitHeight) - digitHeight * 60

\* The canvas width the variant at hand computes for k characters.
WidthFor(k) ==
    IF variant = "file" THEN fileTotalWidth(k) ELSE totalWidth(k, view.out.images)

\* C19: under a fixed glyph order the canvas never gets narrower when the
\* display string gets one character longer.
C19_WidthMonotone ==
    Drawn =>
        /\ view.out.totalWidth = WidthFor(Len(view.out.displayStr))
        /\ \A k \in 1..Len(view.out.displayStr) : WidthFor(k + 1) >= WidthFor(k)

C19_Witness ==
    /\ Drawn /\ variant = "server"
    /\ view.order = <<"timmy", "wendy">>
    /\ Len(view.out.displayStr) = 5
    /\ view.out.totalWidth = digitWidth * (80 + 60 + 80 + 60 + 80)
    /\ WidthFor(6) = view.out.totalWidth + digitWidth * 60

\* The glyph paths the keys of an order string name, key by key.
NamedPaths(order) ==
    LET named == SelectSeq(order, NamesGlyph)
    IN  [i \in 1..Len(named) |-> characterKeyToPath(Dash(TrimLower(named[i])))]

FirstAt(seq, x) == CHOOSE i \in 1..Len(seq) : seq[i] = x /\ \A j \in 1..(i - 1) : seq[j] # x

\* C30: parseOrder returns null, or a list that is not empty, holds known
\* glyph paths only, holds none twice and lists them by first occurrence in
\* the order string; it returns null exactly when no key names a known glyph.
C30_ParseOrder ==
    Drawn =>
        LET res == view.customOrder
            list == res.list
            paths == NamedPaths(view.order)
        IN  /\ res.isNull <=> Len(paths) = 0
            /\ ~res.isNull =>
                  /\ Len(list) > 0
                  /\ \A i \in 1..Len(list) : list[i] \in GlyphPaths
                  /\ \A i, j \in 1..Len(list) : list[i] = list[j] => i = j
                  /\ {list[i] : i \in 1..Len(list)} = {paths[i] : i \in 1..Len(paths)}
                  /\ \A i, j \in 1..Len(list) :
                        i < j => FirstAt(paths, list[i]) < FirstAt(paths, list[j])

-----------------------------------------------------------------------------
(* Properties of the asset cache *)

\* C20: the calls of imageToDataUri for one path all return the same payload,
\* and the loader behind it runs at most once per path.
C20_LoadedOnce ==
    view.stage = "loads" =>
        \A p \in GlyphPaths :
            /\ Cardinality(view.served[p]) <= 1
            /\ view.loads[p] <= 1

\* The loads of path p so far all went through sharp: none fell back to the raw
\* bytes and none failed to read the file.
LoadsClean(p) == view.loads[p] >= 1 /\ view.served[p] \subseteq {"sharp"}

LoadFails(p) ==
    /\ view.stage = "loads"
    /\ view'.loads[p] = view.loads[p] + 1
    /\ view'.latest = [path |-> p, outcome |-> "fail"]

\* The references an answered request gives to the glyphs the cache lacked.
PathsForMissing(a, cch) ==
    \A i \in 1..Len(a.images) :
        ~Cached(cch, a.images[i]) => a.hrefs[i] = a.images[i]

\* C22: a load that fails returns the source path, throws nothing and leaves the
\* cache as it was; the request goes on to the next glyph or to the renderer,
\* and the document it sends refers to a glyph the cache lacks by its source
\* path.
C22_FailedLoadFallsBack ==
    [][\A p \in LoadPaths : LoadFails(p) =>
          /\ cache' = cache
          /\ p \in view'.served[p]
          /\ \E r \in Reqs :
                /\ req[r].pc = "loading" /\ req[r].images[req[r].idx] = p
                /\ \/ req'[r].pc = "loading" /\ req'[r].idx > req[r].idx
                   \/ /\ req'[r].pc = "idle"
                      /\ last'.resp = "svg" /\ ~last'.threw
                      /\ last'.images = req[r].images
                      /\ PathsForMissing(last', cache')]_vars

C22_Witness ==
    /\ view.stage = "loads"
    /\ view.latest = [path |-> Kyle, outcome |-> "fail"]
    /\ cache[Kyle] = "none"
    /\ last.resp = "svg" /\ last.images = <<Kyle, Stan>>
    /\ last.hrefs = <<Kyle, "sharp">>
    /\ \A r \in Reqs : req[r].pc = "idle"

\* The data URIs a load can store.
Payloads == {"sharp", "raw"}

\* C23 as stated: every image reference of a document the server sends is an
\* inline payload.
C23_AllInline ==
    (variant = "server" /\ last.resp = "svg") =>
        \A i \in 1..Len(last.hrefs) : last.hrefs[i] \in Payloads

\* C23: the handler has awaited the load of every glyph of the effective order
\* that the cache lacked before it renders: in the document it sends, a glyph
\* is referred to by the payload the cache holds for it, and by its source
\* path only if a load of it has been tried and has failed.
C23_LoadedBeforeRender ==
    [][(Answered /\ view.stage = "loads" /\ last'.resp = "svg") =>
          /\ Len(last'.hrefs) = Len(last'.images)
          /\ \A i \in 1..Len(last'.images) :
                LET img == last'.images[i]
                IN  IF Cached(cache', img)
                    THEN last'.hrefs[i] = cache'[img] /\ last'.hrefs[i] \in Payloads
                    ELSE /\ last'.hrefs[i] = img
                         /\ view'.loads[img] >= 1
                         /\ img \in view'.served[img]]_vars

C23_Witness ==
    /\ view.stage = "loads"
    /\ view.loads[Kyle] = 1 /\ view.served[Kyle] = {"sharp"}
    /\ last.resp = "svg" /\ last.images = <<Kyle, Stan>>
    /\ last.hrefs = <<"sharp", "sharp">>
    /\ nreq = 1

CacheKeys(cch) == {p \in DOMAIN cch : cch[p] # "none"}

\* C29: the keys of the asset cache are among the seven glyph paths, an entry
\* once stored stays, and a value that an order key resolved to without being
\* a glyph path is never loaded: every call made with it returned it as it
\* came.
C29_CacheHoldsGlyphsOnly ==
    [][/\ CacheKeys(cache') \subseteq GlyphPaths
       /\ Cardinality(CacheKeys(cache')) <= Len(defaultCharacterImages)
       /\ CacheKeys(cache) \subseteq CacheKeys(cache')
       /\ view'.stage = "loads" =>
             \A p \in LoadPaths \ GlyphPaths : view'.served[p] \subseteq {p}]_vars

C29_Witness ==
    /\ view.stage = "loads"
    /\ view.loads[InheritedMember] = 1
    /\ view.served[InheritedMember] = {InheritedMember}
    /\ view.loads[Kyle] = 1 /\ cache[Kyle] = "raw"
    /\ CacheKeys(cache) = GlyphPaths
    /\ \A r \in Reqs : req[r].pc = "idle"

====
